---------------------------- MODULE Spec2Model ----------------------------
(***************************************************************************)
(* Model of MatchExpressionParameterizationVisitorContext                  *)
(* (src/mongo/db/matcher/expression_parameterization.h): the slot table    *)
(* 'inputParamIdToExpressionMap', the counter 'nextParamId', the optional  *)
(* limit 'maxParamCount' and the sticky flag 'parameterized', driven by    *)
(* arbitrary sequences of calls of its three methods and of the two-slot   *)
(* visit that guards its requests with availableParamIds(2).               *)
(*                                                                         *)
(* A boost::optional<T> is a sequence of length 0 (boost::none) or 1.      *)
(* A MatchExpression* is a small integer; NullExpr is nullptr.             *)
(***************************************************************************)
EXTENDS Integers, Sequences, FiniteSets, TLC

(* ------------------------------ bounds --------------------------------- *)

\* Number of distinct MatchExpression nodes of the tree being walked.
NumExprs == 4

\* Largest 'inputMaxParamCount' a context is constructed with.
MaxBudget == 2

\* Largest 'startingParamId' a context is constructed with.
MaxBase == 1

\* Largest 'numIds' handed to availableParamIds.
MaxNumIds == 2

\* Number of calls made on one context.
MaxCalls == 3

\* Number of calls made on one RecordStore.
MaxRsCalls == 2

\* Largest Timestamp handed to oplogDiskLocRegister.
MaxOpTime == 1

(* --------------------------- expression nodes -------------------------- *)

\* nullptr, the value tested by 'if (expr)'.
NullExpr == 0

Exprs == 1..NumExprs

\* Nodes 1 and 2 are two occurrences of the same predicate (the two {a:1} of
\* $or[{a:1}, {a:1, b:1}]); every other node is a predicate of its own.
ShapeOf(e) == IF e = 2 THEN 1 ELSE e

\* The node of a second, structurally identical tree that corresponds to e.
\* The second tree lies elsewhere in memory: its nodes have other addresses,
\* in another order, and the same kinds, paths and operands.
Twin(e) ==
    IF e = NullExpr THEN NullExpr
    ELSE IF e <= 2 THEN 3 - e
    ELSE NumExprs + 3 - e

\* MatchExpression::equivalent: same kind, same path, same operand.
equivalent(m, e) == ShapeOf(m) = ShapeOf(e)

\* The nodes a two-slot visit can be handed: nodes 1 and 2 are equality
\* predicates, every other node may be of a two-slot kind.
TwoSlotExprs == Exprs \ {1, 2}

(* ------------------------------- state --------------------------------- *)

VARIABLES
    inputParamIdToExpressionMap,  \* std::vector<const MatchExpression*>
    maxParamCount,                \* boost::optional<size_t>
    nextParamId,                  \* InputParamId
    parameterized,                \* bool
    startingParamId,              \* the constructor's argument (history)
    calls,                        \* the calls made so far and their results
    issuedIds,                    \* issuedIds[i]: the id returned by the call
                                  \* that appended table entry i (history)
    twinContext,                  \* a second context, constructed alike and
                                  \* driven over a structurally identical tree
    twinReturns,                  \* what each call on twinContext returned
    stack,                        \* tree_walker::walk: the nodes being walked
    visits,                       \* visits[n]: acceptVisitor calls on node n
    inputParamIds,                \* inputParamIds[n]: ids set on node n
    rsCalls                       \* RecordStore: the calls made so far

\* The variables of the walk over the tree.
walkVars == <<stack, visits, inputParamIds>>

\* The variables of the second context.
twinVars == <<twinContext, twinReturns>>

vars == <<inputParamIdToExpressionMap, maxParamCount, nextParamId,
          parameterized, startingParamId, calls, issuedIds,
          twinContext, twinReturns, stack, visits, inputParamIds, rsCalls>>

\* The context as one value, so that a method can be applied to the result
\* of another.
Context ==
    [inputParamIdToExpressionMap |-> inputParamIdToExpressionMap,
     maxParamCount |-> maxParamCount,
     nextParamId |-> nextParamId,
     parameterized |-> parameterized]

Store(c) ==
    /\ inputParamIdToExpressionMap' = c.inputParamIdToExpressionMap
    /\ maxParamCount' = c.maxParamCount
    /\ nextParamId' = c.nextParamId
    /\ parameterized' = c.parameterized

(* ------------------------------ methods -------------------------------- *)

\* A method applied to context c yields the context after the call ('ctx')
\* and the returned value ('ret').

availableParamIds_resetsFlag(c, numIds) ==
    LET ok == ~(c.maxParamCount # <<>> /\
                c.nextParamId + numIds > c.maxParamCount[1])
    IN  [ctx |-> [c EXCEPT !.parameterized = ok], ret |-> ok]

availableParamIds_ignoresNumIds(c, numIds) ==
    IF ~c.parameterized
    THEN [ctx |-> c, ret |-> FALSE]
    ELSE IF c.maxParamCount # <<>> /\ c.nextParamId >= c.maxParamCount[1]
         THEN [ctx |-> [c EXCEPT !.parameterized = FALSE], ret |-> FALSE]
         ELSE [ctx |-> c, ret |-> TRUE]

availableParamIds_offByOne(c, numIds) ==
    IF ~c.parameterized
    THEN [ctx |-> c, ret |-> FALSE]
    ELSE IF c.maxParamCount # <<>> /\
            c.nextParamId + numIds >= c.maxParamCount[1]
         THEN [ctx |-> [c EXCEPT !.parameterized = FALSE], ret |-> FALSE]
         ELSE [ctx |-> c, ret |-> TRUE]

\* numIds is an int cast to size_t; only numIds >= 0 is modelled.
availableParamIds(c, numIds) ==
    IF ~c.parameterized
    THEN [ctx |-> c, ret |-> FALSE]
    ELSE IF c.maxParamCount # <<>> /\
            c.nextParamId + numIds > c.maxParamCount[1]
         THEN [ctx |-> [c EXCEPT !.parameterized = FALSE], ret |-> FALSE]
         ELSE [ctx |-> c, ret |-> TRUE]

nextInputParamId_noFlagCheck(c, expr) ==
    IF c.maxParamCount # <<>> /\ c.nextParamId >= c.maxParamCount[1]
    THEN [ctx |-> [c EXCEPT !.parameterized = FALSE], ret |-> <<>>]
    ELSE [ctx |-> [c EXCEPT
                     !.inputParamIdToExpressionMap = Append(@, expr),
                     !.nextParamId = @ + 1],
          ret |-> <<c.nextParamId>>]

nextInputParamId_noIncrement(c, expr) ==
    IF ~c.parameterized
    THEN [ctx |-> c, ret |-> <<>>]
    ELSE IF c.maxParamCount # <<>> /\ c.nextParamId >= c.maxParamCount[1]
         THEN [ctx |-> [c EXCEPT !.parameterized = FALSE], ret |-> <<>>]
         ELSE [ctx |-> [c EXCEPT
                          !.inputParamIdToExpressionMap = Append(@, expr)],
               ret |-> <<c.nextParamId>>]

nextInputParamId_offByOne(c, expr) ==
    IF ~c.parameterized
    THEN [ctx |-> c, ret |-> <<>>]
    ELSE IF c.maxParamCount # <<>> /\ c.nextParamId > c.maxParamCount[1]
         THEN [ctx |-> [c EXCEPT !.parameterized = FALSE], ret |-> <<>>]
         ELSE [ctx |-> [c EXCEPT
                          !.inputParamIdToExpressionMap = Append(@, expr),
                          !.nextParamId = @ + 1],
               ret |-> <<c.nextParamId>>]

nextInputParamId(c, expr) ==
    IF ~c.parameterized
    THEN [ctx |-> c, ret |-> <<>>]
    ELSE IF c.maxParamCount # <<>> /\ c.nextParamId >= c.maxParamCount[1]
         THEN [ctx |-> [c EXCEPT !.parameterized = FALSE], ret |-> <<>>]
         ELSE [ctx |-> [c EXCEPT
                          !.inputParamIdToExpressionMap = Append(@, expr),
                          !.nextParamId = @ + 1],
               ret |-> <<c.nextParamId>>]

FindEquivalent_pointerEquality(table, expr) ==
    LET hits == {i \in 1..Len(table) : table[i] = expr}
    IN  IF hits = {} THEN Len(table) + 1
        ELSE CHOOSE i \in hits : \A j \in hits : i <= j

FindEquivalent_addressOrder(table, expr) ==
    LET hits == {i \in 1..Len(table) : equivalent(table[i], expr)}
    IN  IF hits = {} THEN Len(table) + 1
        ELSE CHOOSE i \in hits :
                \A j \in hits : \/ table[i] < table[j]
                                \/ table[i] = table[j] /\ i <= j

\* std::find_if over the table with m->equivalent(expr): the 1-based position
\* of the first equivalent entry, Len(table) + 1 for end().
FindEquivalent(table, expr) ==
    LET hits == {i \in 1..Len(table) : equivalent(table[i], expr)}
    IN  IF hits = {} THEN Len(table) + 1
        ELSE CHOOSE i \in hits : \A j \in hits : i <= j

nextReusableInputParamId_budgetFirst(c, expr) ==
    IF ~c.parameterized
    THEN [ctx |-> c, ret |-> <<>>]
    ELSE IF c.maxParamCount # <<>> /\ c.nextParamId >= c.maxParamCount[1]
         THEN [ctx |-> [c EXCEPT !.parameterized = FALSE], ret |-> <<>>]
         ELSE IF expr # NullExpr
              THEN LET it == FindEquivalent(c.inputParamIdToExpressionMap,
                                            expr)
                   IN  IF it = Len(c.inputParamIdToExpressionMap) + 1
                       THEN nextInputParamId(c, expr)
                       ELSE [ctx |-> c, ret |-> <<it - 1>>]
              ELSE [ctx |-> c, ret |-> <<>>]

nextReusableInputParamId(c, expr) ==
    IF ~c.parameterized
    THEN [ctx |-> c, ret |-> <<>>]
    ELSE IF expr # NullExpr
         THEN LET it == FindEquivalent(c.inputParamIdToExpressionMap, expr)
              IN  IF it = Len(c.inputParamIdToExpressionMap) + 1
                  THEN nextInputParamId(c, expr)
                  ELSE [ctx |-> c, ret |-> <<it - 1>>]
         ELSE [ctx |-> c, ret |-> <<>>]

\* The visit of a two-slot node (bit test, $mod, $regex): availableParamIds(2)
\* first, then one nextInputParamId per argument, or nothing at all.
visitBitTestExpression(c, expr) ==
    LET a == availableParamIds(c, 2)
    IN  IF a.ret
        THEN LET p1 == nextInputParamId(a.ctx, expr)
                 p2 == nextInputParamId(p1.ctx, expr)
             IN  [ctx |-> p2.ctx, ret |-> p1.ret \o p2.ret]
        ELSE [ctx |-> a.ctx, ret |-> <<>>]

(* ------------------------------ actions -------------------------------- *)

\* The ids of 'r.ret' that were returned while appending a table entry.
Fresh(r) ==
    LET grown == Len(r.ctx.inputParamIdToExpressionMap)
                 - Len(inputParamIdToExpressionMap)
    IN  IF grown = 0 THEN <<>> ELSE r.ret

\* One entry of 'calls': the method, its arguments, the context it was called
\* on ('pre'), and what it returned: 'avail' for availableParamIds, 'ids' for
\* the others (<<>> is boost::none).
Record(op, expr, numIds, avail, ids) ==
    [op |-> op, expr |-> expr, numIds |-> numIds, pre |-> Context,
     avail |-> avail, ids |-> ids]

\* The tree being walked, $or[{a:1}, $and[{a:1}, ...]]: the leaves are Exprs,
\* Inner is the conjunction and Root the disjunction.
Inner == NumExprs + 1

Root == NumExprs + 2

Nodes == 1..Root

Children(n) ==
    IF n = Root THEN <<1, Inner>>
    ELSE IF n = Inner THEN [i \in 1..(NumExprs - 1) |-> i + 1]
    ELSE <<>>

\* One activation of tree_walker::walk(n): whether preVisit(n) has run and
\* how many children have been walked.
Frame(n) == [node |-> n, pre |-> FALSE, walked |-> 0]

\* What a call on the second context returned.
TwinReturn(avail, ids) == [avail |-> avail, ids |-> ids]

Init ==
    /\ inputParamIdToExpressionMap = <<>>
    /\ maxParamCount \in {<<>>} \cup {<<b>> : b \in 0..MaxBudget}
    /\ startingParamId \in 0..MaxBase
    /\ nextParamId = startingParamId
    /\ parameterized = TRUE
    /\ calls = <<>>
    /\ issuedIds = <<>>
    /\ twinContext = [inputParamIdToExpressionMap |-> <<>>,
                      maxParamCount |-> maxParamCount,
                      nextParamId |-> startingParamId,
                      parameterized |-> TRUE]
    /\ twinReturns = <<>>
    /\ stack = <<Frame(Root)>>
    /\ visits = [n \in Nodes |-> 0]
    /\ inputParamIds = [n \in Nodes |-> <<>>]
    /\ rsCalls = <<>>

CallAvailableParamIds ==
    /\ Len(calls) < MaxCalls
    /\ \E numIds \in 0..MaxNumIds :
         LET r == availableParamIds(Context, numIds)
             t == availableParamIds(twinContext, numIds)
         IN  /\ Store(r.ctx)
             /\ calls' = Append(calls, Record("availableParamIds", NullExpr,
                                              numIds, r.ret, <<>>))
             /\ twinContext' = t.ctx
             /\ twinReturns' = Append(twinReturns, TwinReturn(t.ret, <<>>))
    /\ UNCHANGED <<startingParamId, issuedIds, walkVars, rsCalls>>

CallNextInputParamId ==
    /\ Len(calls) < MaxCalls
    /\ \E expr \in Exprs :
         LET r == nextInputParamId(Context, expr)
             t == nextInputParamId(twinContext, Twin(expr))
         IN  /\ Store(r.ctx)
             /\ calls' = Append(calls, Record("nextInputParamId", expr,
                                              1, FALSE, r.ret))
             /\ issuedIds' = issuedIds \o Fresh(r)
             /\ twinContext' = t.ctx
             /\ twinReturns' = Append(twinReturns, TwinReturn(FALSE, t.ret))
    /\ UNCHANGED <<startingParamId, walkVars, rsCalls>>

CallNextReusableInputParamId ==
    /\ Len(calls) < MaxCalls
    /\ \E expr \in Exprs \cup {NullExpr} :
         LET r == nextReusableInputParamId(Context, expr)
             t == nextReusableInputParamId(twinContext, Twin(expr))
         IN  /\ Store(r.ctx)
             /\ calls' = Append(calls, Record("nextReusableInputParamId", expr,
                                              1, FALSE, r.ret))
             /\ issuedIds' = issuedIds \o Fresh(r)
             /\ twinContext' = t.ctx
             /\ twinReturns' = Append(twinReturns, TwinReturn(FALSE, t.ret))
    /\ UNCHANGED <<startingParamId, walkVars, rsCalls>>

VisitBitTest ==
    /\ Len(calls) < MaxCalls
    /\ \E expr \in TwoSlotExprs :
         LET r == visitBitTestExpression(Context, expr)
             t == visitBitTestExpression(twinContext, Twin(expr))
         IN  /\ Store(r.ctx)
             /\ calls' = Append(calls, Record("visitBitTestExpression", expr,
                                              2, FALSE, r.ret))
             /\ issuedIds' = issuedIds \o Fresh(r)
             /\ twinContext' = t.ctx
             /\ twinReturns' = Append(twinReturns, TwinReturn(FALSE, t.ret))
    /\ UNCHANGED <<startingParamId, walkVars, rsCalls>>

Next ==
    \/ CallAvailableParamIds
    \/ CallNextInputParamId
    \/ CallNextReusableInputParamId
    \/ VisitBitTest

Spec == Init /\ [][Next]_vars

(* ------------------------- visitor and walker -------------------------- *)

\* The node kinds whose visit() has an empty body.
EmptyVisitKinds == {
    "AlwaysFalseMatchExpression", "AlwaysTrueMatchExpression",
    "AndMatchExpression", "ElemMatchObjectMatchExpression",
    "ElemMatchValueMatchExpression", "ExistsMatchExpression",
    "ExprMatchExpression", "GeoMatchExpression", "GeoNearMatchExpression",
    "InternalBucketGeoWithinMatchExpression",
    "InternalExprEqMatchExpression", "InternalExprGTMatchExpression",
    "InternalExprGTEMatchExpression", "InternalExprLTMatchExpression",
    "InternalExprLTEMatchExpression", "InternalEqHashedKey",
    "InternalSchemaAllElemMatchFromIndexMatchExpression",
    "InternalSchemaAllowedPropertiesMatchExpression",
    "InternalSchemaBinDataEncryptedTypeExpression",
    "InternalSchemaBinDataFLE2EncryptedTypeExpression",
    "InternalSchemaBinDataSubTypeExpression",
    "InternalSchemaCondMatchExpression", "InternalSchemaEqMatchExpression",
    "InternalSchemaFmodMatchExpression",
    "InternalSchemaMatchArrayIndexMatchExpression",
    "InternalSchemaMaxItemsMatchExpression",
    "InternalSchemaMaxLengthMatchExpression",
    "InternalSchemaMaxPropertiesMatchExpression",
    "InternalSchemaMinItemsMatchExpression",
    "InternalSchemaMinLengthMatchExpression",
    "InternalSchemaMinPropertiesMatchExpression",
    "InternalSchemaObjectMatchExpression",
    "InternalSchemaRootDocEqMatchExpression",
    "InternalSchemaTypeExpression",
    "InternalSchemaUniqueItemsMatchExpression",
    "InternalSchemaXorMatchExpression", "NorMatchExpression",
    "NotMatchExpression", "OrMatchExpression", "TextMatchExpression",
    "TextNoOpMatchExpression", "TwoDPtInAnnulusExpression",
    "WhereNoOpMatchExpression"}

\* The kinds that take two parameter ids, assigned together or not at all.
TwoSlotKinds == {
    "BitsAllClearMatchExpression", "BitsAllSetMatchExpression",
    "BitsAnyClearMatchExpression", "BitsAnySetMatchExpression",
    "ModMatchExpression", "RegexMatchExpression"}

\* The kinds that take one, reusable, parameter id.
ReusableKinds == {
    "EqualityMatchExpression", "GTEMatchExpression", "GTMatchExpression",
    "LTEMatchExpression", "LTMatchExpression", "InMatchExpression",
    "SizeMatchExpression", "TypeMatchExpression", "WhereMatchExpression"}

Kinds == EmptyVisitKinds \cup TwoSlotKinds \cup ReusableKinds

\* The kinds node n can have: the root is the $or, Inner the $and, nodes 1
\* and 2 the two occurrences of {a:1}, the other leaves anything.
KindsOf(n) ==
    IF n = Root THEN {"OrMatchExpression"}
    ELSE IF n = Inner THEN {"AndMatchExpression"}
    ELSE IF n <= 2 THEN {"EqualityMatchExpression"}
    ELSE Kinds

\* Whether the operand of node n, of kind 'kind', can be parameterized (not
\* MinKey, MaxKey, null, NaN, an array, ...): {a:1} can, an empty visit does
\* not look, the other leaves may or may not.
Eligibility(n, kind) ==
    IF kind \in EmptyVisitKinds THEN {FALSE}
    ELSE IF n <= 2 THEN {TRUE}
    ELSE BOOLEAN

\* The visit() overloads that are only declared in the header.
visitDeclared(c, kind, expr, eligible) ==
    IF ~eligible THEN [ctx |-> c, ret |-> <<>>]
    ELSE IF kind \in TwoSlotKinds THEN visitBitTestExpression(c, expr)
    ELSE nextReusableInputParamId(c, expr)

visit_hashedKeyAsEquality(c, kind, expr, eligible) ==
    IF kind = "InternalEqHashedKey" THEN nextReusableInputParamId(c, expr)
    ELSE IF kind \in EmptyVisitKinds THEN [ctx |-> c, ret |-> <<>>]
    ELSE visitDeclared(c, kind, expr, eligible)

\* MatchExpressionParameterizationVisitor::visit, by kind of the node.
visit(c, kind, expr, eligible) ==
    IF kind \in EmptyVisitKinds THEN [ctx |-> c, ret |-> <<>>]
    ELSE visitDeclared(c, kind, expr, eligible)

preVisit_stopsOnceFalse(c, kind, expr, eligible) ==
    IF ~c.parameterized
    THEN [ctx |-> c, ret |-> <<>>, dispatched |-> 0]
    ELSE LET v == visit(c, kind, expr, eligible)
         IN  [ctx |-> v.ctx, ret |-> v.ret, dispatched |-> 1]

\* preVisit: expr->acceptVisitor(_visitor), which calls the visit() of the
\* node's kind. 'dispatched' counts the acceptVisitor calls made.
preVisit(c, kind, expr, eligible) ==
    LET v == visit(c, kind, expr, eligible)
    IN  [ctx |-> v.ctx, ret |-> v.ret, dispatched |-> 1]

\* postVisit and inVisit, applied to the context and to the ids set on the
\* nodes of the tree.
postVisit(c, ids, expr) == [ctx |-> c, ids |-> ids]

inVisit(c, ids, count, expr) == [ctx |-> c, ids |-> ids]

Top == stack[Len(stack)]

\* walk(n) starts with preVisit(n) and then walks the first child. During a
\* walk 'calls' keeps the most recent dispatch only.
WalkPreVisit ==
    /\ stack # <<>>
    /\ ~Top.pre
    /\ \E kind \in KindsOf(Top.node) :
       \E eligible \in Eligibility(Top.node, kind) :
         LET n == Top.node
             r == preVisit(Context, kind, n, eligible)
             marked == [stack EXCEPT ![Len(stack)].pre = TRUE]
         IN  /\ Store(r.ctx)
             /\ calls' = <<Record(kind, n, 0, FALSE, r.ret)>>
             /\ issuedIds' = issuedIds \o Fresh(r)
             /\ visits' = [visits EXCEPT ![n] = @ + r.dispatched]
             /\ inputParamIds' = [inputParamIds EXCEPT ![n] = r.ret]
             /\ stack' = IF Children(n) = <<>> THEN marked
                         ELSE Append(marked, Frame(Children(n)[1]))
    /\ UNCHANGED <<startingParamId, twinVars, rsCalls>>

\* Between two children: inVisit(count, n), then the walk of the next child.
WalkInVisit ==
    /\ stack # <<>>
    /\ Top.pre
    /\ Top.walked > 0
    /\ Top.walked < Len(Children(Top.node))
    /\ LET n == Top.node
           r == inVisit(Context, inputParamIds, Top.walked, n)
       IN  /\ Store(r.ctx)
           /\ inputParamIds' = r.ids
           /\ stack' = Append(stack, Frame(Children(n)[Top.walked + 1]))
    /\ UNCHANGED <<startingParamId, calls, issuedIds, visits, twinVars,
                   rsCalls>>

\* After the last child: postVisit(n), and walk(n) returns to its caller.
WalkPostVisit ==
    /\ stack # <<>>
    /\ Top.pre
    /\ Top.walked = Len(Children(Top.node))
    /\ LET n == Top.node
           r == postVisit(Context, inputParamIds, n)
           popped == SubSeq(stack, 1, Len(stack) - 1)
       IN  /\ Store(r.ctx)
           /\ inputParamIds' = r.ids
           /\ stack' = IF popped = <<>> THEN popped
                       ELSE [popped EXCEPT ![Len(popped)].walked = @ + 1]
    /\ UNCHANGED <<startingParamId, calls, issuedIds, visits, twinVars,
                   rsCalls>>

NextWalk ==
    \/ WalkPreVisit
    \/ WalkInVisit
    \/ WalkPostVisit

SpecWalk == Init /\ [][NextWalk]_vars

\* walk() is a plain recursion: once started it runs to its end.
SpecWalkFair == SpecWalk /\ WF_vars(NextWalk)

(* ------------------------------ helpers -------------------------------- *)

Last(s) == s[Len(s)]

Range(s) == {s[i] : i \in 1..Len(s)}

IsPrefix(s, t) == Len(s) <= Len(t) /\ \A i \in 1..Len(s) : s[i] = t[i]

\* The context call i left behind.
After(i) == IF i < Len(calls) THEN calls[i + 1].pre ELSE Context

\* The value of maxParamCount when one is set.
Budget == maxParamCount[1]

SlotRequests == {"nextInputParamId", "nextReusableInputParamId"}

\* Every id returned so far, by any call.
ReturnedIds == UNION {Range(calls[i].ids) : i \in 1..Len(calls)}

TypeOK ==
    /\ inputParamIdToExpressionMap \in Seq(Exprs)
    /\ nextParamId \in Nat
    /\ startingParamId \in 0..MaxBase
    /\ parameterized \in BOOLEAN
    /\ Len(calls) <= MaxCalls
    /\ Len(issuedIds) = Len(inputParamIdToExpressionMap)

(* ----------------------------- RecordStore ------------------------------ *)

\* opCtx->lockState(), as far as the two functions look at it. A locker holds
\* at most one ticket, for reading or for writing.
LockStates ==
    [isNoop : BOOLEAN,
     ticket : {"none", "read", "write"},
     uninterruptibleLocksRequested : BOOLEAN]

hasReadTicket(lockState) == lockState.ticket = "read"

hasWriteTicket(lockState) == lockState.ticket = "write"

\* The Status values oplogDiskLocRegisterImpl can return.
Statuses == {"OK", "BadValue"}

OpTimes == 1..MaxOpTime

\* One invocation of an ...Impl member with its arguments.
ImplCall(fn, opTime, orderedCommit) ==
    [fn |-> fn, opTime |-> opTime, orderedCommit |-> orderedCommit]

\* A function applied to the caller's lock state yields whether its
\* invariant() failed ('aborted'), the Impl invocations it made ('impl') and
\* the Status it returned ('ret', <<>> for none).

oplogDiskLocRegister_checksWriteTicket(lockState, opTime, orderedCommit, implStatus) ==
    IF \/ lockState.isNoop
       \/ ~hasWriteTicket(lockState)
       \/ ~lockState.uninterruptibleLocksRequested
    THEN [aborted |-> FALSE,
          impl |-> <<ImplCall("oplogDiskLocRegisterImpl", opTime,
                              orderedCommit)>>,
          ret |-> <<implStatus>>]
    ELSE [aborted |-> TRUE, impl |-> <<>>, ret |-> <<>>]

\* implStatus is what oplogDiskLocRegisterImpl returns when it is called.
oplogDiskLocRegister(lockState, opTime, orderedCommit, implStatus) ==
    IF \/ lockState.isNoop
       \/ ~hasReadTicket(lockState)
       \/ ~lockState.uninterruptibleLocksRequested
    THEN [aborted |-> FALSE,
          impl |-> <<ImplCall("oplogDiskLocRegisterImpl", opTime,
                              orderedCommit)>>,
          ret |-> <<implStatus>>]
    ELSE [aborted |-> TRUE, impl |-> <<>>, ret |-> <<>>]

waitForAllEarlierOplogWritesToBeVisible_checksReadTicket(lockState) ==
    IF \/ lockState.isNoop
       \/ ~hasReadTicket(lockState)
       \/ ~lockState.uninterruptibleLocksRequested
    THEN [aborted |-> FALSE,
          impl |-> <<ImplCall("waitForAllEarlierOplogWritesToBeVisibleImpl",
                              0, FALSE)>>,
          ret |-> <<>>]
    ELSE [aborted |-> TRUE, impl |-> <<>>, ret |-> <<>>]

waitForAllEarlierOplogWritesToBeVisible(lockState) ==
    IF \/ lockState.isNoop
       \/ ~hasWriteTicket(lockState)
       \/ ~lockState.uninterruptibleLocksRequested
    THEN [aborted |-> FALSE,
          impl |-> <<ImplCall("waitForAllEarlierOplogWritesToBeVisibleImpl",
                              0, FALSE)>>,
          ret |-> <<>>]
    ELSE [aborted |-> TRUE, impl |-> <<>>, ret |-> <<>>]

\* A failed invariant() has ended the process.
RsAborted == rsCalls # <<>> /\ Last(rsCalls).aborted

\* One entry of 'rsCalls': the function, its arguments, the caller's lock
\* state, the Status its Impl would return, and what the call did.
RsRecord(fn, lockState, opTime, orderedCommit, implStatus, r) ==
    [fn |-> fn, lockState |-> lockState, opTime |-> opTime,
     orderedCommit |-> orderedCommit, implStatus |-> implStatus,
     aborted |-> r.aborted, impl |-> r.impl, ret |-> r.ret]

CallOplogDiskLocRegister ==
    /\ Len(rsCalls) < MaxRsCalls
    /\ ~RsAborted
    /\ \E lockState \in LockStates, opTime \in OpTimes,
          orderedCommit \in BOOLEAN, implStatus \in Statuses :
         rsCalls' = Append(rsCalls,
             RsRecord("oplogDiskLocRegister", lockState, opTime,
                      orderedCommit, implStatus,
                      oplogDiskLocRegister(lockState, opTime, orderedCommit,
                                           implStatus)))
    /\ UNCHANGED <<inputParamIdToExpressionMap, maxParamCount, nextParamId,
                   parameterized, startingParamId, calls, issuedIds,
                   twinVars, walkVars>>

CallWaitForAllEarlierOplogWritesToBeVisible ==
    /\ Len(rsCalls) < MaxRsCalls
    /\ ~RsAborted
    /\ \E lockState \in LockStates :
         rsCalls' = Append(rsCalls,
             RsRecord("waitForAllEarlierOplogWritesToBeVisible", lockState,
                      0, FALSE, "OK",
                      waitForAllEarlierOplogWritesToBeVisible(lockState)))
    /\ UNCHANGED <<inputParamIdToExpressionMap, maxParamCount, nextParamId,
                   parameterized, startingParamId, calls, issuedIds,
                   twinVars, walkVars>>

\* The RecordStore shares nothing with the parameterization context: one
\* context, left alone, stands for it.
InitRecordStore ==
    /\ Init
    /\ maxParamCount = <<>>
    /\ startingParamId = 0

NextRecordStore ==
    \/ CallOplogDiskLocRegister
    \/ CallWaitForAllEarlierOplogWritesToBeVisible

SpecRecordStore == InitRecordStore /\ [][NextRecordStore]_vars

(* ------------------------------- claims -------------------------------- *)

\* C1: 'parameterized' starts true, and no call of availableParamIds,
\* nextInputParamId or nextReusableInputParamId (alone or inside the two-slot
\* visit) that finds it false leaves it true.
C1_FlagOnlyFalls ==
    /\ calls = <<>> => parameterized
    /\ \A i \in 1..Len(calls) :
         /\ i = 1 => calls[i].pre.parameterized
         /\ ~calls[i].pre.parameterized => ~After(i).parameterized

\* The flag has fallen and a later call found it false.
C1_Witness ==
    /\ ~parameterized
    /\ \E i \in 1..Len(calls) :
         /\ ~calls[i].pre.parameterized
         /\ calls[i].op = "availableParamIds"
         /\ calls[i].numIds = 0

\* C2: a call made while 'parameterized' is false returns boost::none
\* (nextInputParamId, nextReusableInputParamId) or false (availableParamIds)
\* and leaves the table, the counter and the flag as they were.
C2_InertOnceFalse ==
    \A i \in 1..Len(calls) :
        ~calls[i].pre.parameterized =>
            /\ calls[i].ids = <<>>
            /\ calls[i].avail = FALSE
            /\ After(i).inputParamIdToExpressionMap
                 = calls[i].pre.inputParamIdToExpressionMap
            /\ After(i).nextParamId = calls[i].pre.nextParamId
            /\ After(i).parameterized = calls[i].pre.parameterized

\* A slot request made with the flag false although the limit still had room
\* for it (the flag fell in an availableParamIds call).
C2_Witness ==
    \E i \in 1..Len(calls) :
        /\ ~calls[i].pre.parameterized
        /\ calls[i].op \in SlotRequests
        /\ calls[i].expr # NullExpr
        /\ calls[i].pre.nextParamId < calls[i].pre.maxParamCount[1]

\* Call i was a nextReusableInputParamId that found an equivalent entry.
ReuseHit(i) ==
    /\ calls[i].op = "nextReusableInputParamId"
    /\ calls[i].pre.parameterized
    /\ calls[i].expr # NullExpr
    /\ FindEquivalent(calls[i].pre.inputParamIdToExpressionMap, calls[i].expr)
         <= Len(calls[i].pre.inputParamIdToExpressionMap)

\* C3: a nextReusableInputParamId(x) that finds an equivalent table entry
\* returns the id that was returned when that entry was appended, whatever
\* the starting id.
C3_ReuseReturnsIssuedId ==
    \A i \in 1..Len(calls) :
        ReuseHit(i) =>
            calls[i].ids =
                <<issuedIds[FindEquivalent(
                    calls[i].pre.inputParamIdToExpressionMap, calls[i].expr)]>>

\* C4: two calls that return the same id were made for the same node or for
\* equivalent nodes.
C4_SharedIdMeansEquivalent ==
    \A i, j \in 1..Len(calls) :
        Range(calls[i].ids) \cap Range(calls[j].ids) # {} =>
            equivalent(calls[i].expr, calls[j].expr)

\* C5: while the flag is true, the ids returned so far are exactly
\* startingParamId .. startingParamId + k - 1, k the length of the table, and
\* each of them was issued for exactly one table entry.
C5_IdsContiguous ==
    parameterized =>
        /\ ReturnedIds = startingParamId ..
               (startingParamId + Len(inputParamIdToExpressionMap) - 1)
        /\ \A id \in ReturnedIds :
             Cardinality({k \in 1..Len(issuedIds) : issuedIds[k] = id}) = 1

\* C6: the length of the table is nextParamId - startingParamId in every
\* state, and every call leaves the old table as a prefix of the new one.
C6_TableTracksCounter ==
    /\ Len(inputParamIdToExpressionMap) = nextParamId - startingParamId
    /\ \A i \in 1..Len(calls) :
         /\ Len(calls[i].pre.inputParamIdToExpressionMap)
              = calls[i].pre.nextParamId - startingParamId
         /\ IsPrefix(calls[i].pre.inputParamIdToExpressionMap,
                     After(i).inputParamIdToExpressionMap)

\* A context started above 0 whose table has grown twice.
C6_Witness ==
    /\ startingParamId > 0
    /\ Len(inputParamIdToExpressionMap) >= 2

\* C7: with maxParamCount set, the table never gets longer than
\* startingParamId + maxParamCount.
C7_WithinBudget ==
    maxParamCount # <<>> =>
        Len(inputParamIdToExpressionMap) <= startingParamId + Budget

\* The table is as long as the limit and a further request was refused.
C7_Witness ==
    /\ maxParamCount # <<>>
    /\ Len(inputParamIdToExpressionMap) = startingParamId + Budget
    /\ Len(inputParamIdToExpressionMap) > 0
    /\ ~parameterized
    /\ Last(calls).op \in SlotRequests

\* n more slots fit, counting the slots this walk has issued.
FitsWalk(c, n) ==
    \/ c.maxParamCount = <<>>
    \/ Len(c.inputParamIdToExpressionMap) + n <= c.maxParamCount[1]

\* n more slots fit, counting from the next id to assign.
FitsIds(c, n) ==
    \/ c.maxParamCount = <<>>
    \/ c.nextParamId + n <= c.maxParamCount[1]

\* C8, as claimed: availableParamIds(n) is true iff the flag is true and the
\* slots issued by this walk plus n do not exceed maxParamCount; it clears
\* the flag when they do, and never touches the table or the counter.
C8_AvailableCountsWalkSlots ==
    \A i \in 1..Len(calls) :
        calls[i].op = "availableParamIds" =>
            LET pre == calls[i].pre
                fits == FitsWalk(pre, calls[i].numIds)
            IN  /\ calls[i].avail = (pre.parameterized /\ fits)
                /\ pre.parameterized /\ ~fits => ~After(i).parameterized
                /\ After(i).inputParamIdToExpressionMap
                     = pre.inputParamIdToExpressionMap
                /\ After(i).nextParamId = pre.nextParamId

\* C8, amended: availableParamIds(n) is true iff the flag is true and
\* nextParamId + n does not exceed maxParamCount (none: never exceeded); with
\* the flag true and nextParamId + n above maxParamCount it clears the flag
\* and returns false; it never touches the table or the counter.
C8_AvailableCountsIds ==
    \A i \in 1..Len(calls) :
        calls[i].op = "availableParamIds" =>
            LET pre == calls[i].pre
                fits == FitsIds(pre, calls[i].numIds)
            IN  /\ calls[i].avail = (pre.parameterized /\ fits)
                /\ pre.parameterized /\ ~fits =>
                     ~After(i).parameterized /\ ~calls[i].avail
                /\ After(i).inputParamIdToExpressionMap
                     = pre.inputParamIdToExpressionMap
                /\ After(i).nextParamId = pre.nextParamId

\* availableParamIds refused, and cleared the flag, although the walk had
\* issued fewer than maxParamCount - n slots; and another call accepted.
C8_Witness ==
    /\ \E i \in 1..Len(calls) :
         /\ calls[i].op = "availableParamIds"
         /\ calls[i].pre.parameterized
         /\ FitsWalk(calls[i].pre, calls[i].numIds)
         /\ ~calls[i].avail
         /\ ~After(i).parameterized
    /\ \E i \in 1..Len(calls) :
         /\ calls[i].op = "availableParamIds"
         /\ calls[i].numIds > 0
         /\ calls[i].avail

\* Every call so far is a single-slot request, on pairwise non-equivalent
\* nodes.
OnlyDistinctRequests ==
    \A i \in 1..Len(calls) :
        /\ calls[i].op \in SlotRequests
        /\ calls[i].expr # NullExpr
        /\ \A j \in 1..Len(calls) :
             j # i => ~equivalent(calls[i].expr, calls[j].expr)

\* C9: on a context with startingParamId 0 and maxParamCount B, single-slot
\* requests on pairwise non-equivalent nodes get ids 0 .. B-1 in order for
\* the first B of them and boost::none from then on; the flag is false as
\* soon as request B+1 has been made.
C9_BudgetStickyFailure ==
    (startingParamId = 0 /\ maxParamCount # <<>> /\ OnlyDistinctRequests) =>
        /\ \A i \in 1..Len(calls) :
             /\ i <= Budget => calls[i].ids = <<i - 1>>
             /\ i > Budget => calls[i].ids = <<>>
             /\ After(i).parameterized = (i <= Budget)
        /\ \A id \in ReturnedIds : id < Budget

\* One request served, the next refused, a later one refused as well.
C9_Witness ==
    /\ startingParamId = 0
    /\ maxParamCount = <<1>>
    /\ OnlyDistinctRequests
    /\ Len(calls) = 3
    /\ calls[1].ids = <<0>>
    /\ calls[3].op = "nextReusableInputParamId"

\* C10: a two-slot visit gets both slots or none; when maxParamCount leaves
\* room for fewer than two more ids it gets none, the table stays as it was
\* and the flag is false afterwards.
C10_AllOrNothing ==
    \A i \in 1..Len(calls) :
        calls[i].op = "visitBitTestExpression" =>
            LET pre == calls[i].pre IN
            /\ Len(calls[i].ids) \in {0, 2}
            /\ (pre.maxParamCount # <<>> /\
                pre.maxParamCount[1] - pre.nextParamId < 2) =>
                    /\ calls[i].ids = <<>>
                    /\ After(i).inputParamIdToExpressionMap
                         = pre.inputParamIdToExpressionMap
                    /\ ~After(i).parameterized

\* A two-slot visit made with the flag true, a slot already issued and room
\* for exactly one more id got nothing.
C10_Witness ==
    \E i \in 1..Len(calls) :
        /\ calls[i].op = "visitBitTestExpression"
        /\ calls[i].pre.parameterized
        /\ calls[i].pre.inputParamIdToExpressionMap # <<>>
        /\ calls[i].pre.maxParamCount # <<>>
        /\ calls[i].pre.maxParamCount[1] - calls[i].pre.nextParamId = 1
        /\ calls[i].ids = <<>>
        /\ ~After(i).parameterized

\* Every call so far is a nextReusableInputParamId.
OnlyReusableRequests ==
    \A i \in 1..Len(calls) : calls[i].op = "nextReusableInputParamId"

\* The calls made for a node.
NodeCalls == {i \in 1..Len(calls) : calls[i].expr # NullExpr}

\* C11: on a context with startingParamId 0 and no maxParamCount, driven by
\* nextReusableInputParamId only, every call for a node returns an id, two
\* calls return the same id iff their nodes are equivalent, and the table is
\* as long as the number of equivalence classes requested.
C11_DedupCorrect ==
    (startingParamId = 0 /\ maxParamCount = <<>> /\ OnlyReusableRequests) =>
        /\ \A i \in NodeCalls : Len(calls[i].ids) = 1
        /\ \A i, j \in NodeCalls :
             (calls[i].ids = calls[j].ids)
                 <=> equivalent(calls[i].expr, calls[j].expr)
        /\ Len(inputParamIdToExpressionMap)
             = Cardinality({ShapeOf(calls[i].expr) : i \in NodeCalls})

\* $or[{a:1}, {a:1, b:2}]: slot 0 for both occurrences of a:1, slot 1 for b:2.
C11_Witness ==
    /\ startingParamId = 0
    /\ maxParamCount = <<>>
    /\ OnlyReusableRequests
    /\ Len(calls) = 3
    /\ calls[1].expr = 1 /\ calls[1].ids = <<0>>
    /\ calls[2].expr = 2 /\ calls[2].ids = <<0>>
    /\ calls[3].expr = 3 /\ calls[3].ids = <<1>>
    /\ Len(inputParamIdToExpressionMap) = 2

\* C14: after an availableParamIds(n) that returned true, n >= 1, the k-th of
\* the nextInputParamId calls that follow it directly (k <= n) returns the id
\* nextParamId + k - 1 and leaves the flag true.
C14_AvailableIsSound ==
    \A i \in 1..Len(calls) :
        (calls[i].op = "availableParamIds" /\ calls[i].avail
                                           /\ calls[i].numIds >= 1) =>
            \A k \in 1..calls[i].numIds :
                (/\ i + k <= Len(calls)
                 /\ \A m \in 1..k : calls[i + m].op = "nextInputParamId") =>
                    /\ calls[i + k].ids = <<calls[i].pre.nextParamId + k - 1>>
                    /\ After(i + k).parameterized

\* availableParamIds(2) accepted with room for exactly two more ids, and the
\* two requests that followed were both served.
C14_Witness ==
    /\ Len(calls) = 3
    /\ calls[1].op = "availableParamIds"
    /\ calls[1].numIds = 2
    /\ calls[1].avail
    /\ maxParamCount # <<>>
    /\ calls[1].pre.nextParamId + 2 = Budget
    /\ calls[2].op = "nextInputParamId"
    /\ calls[3].op = "nextInputParamId"
    /\ Len(calls[3].ids) = 1
    /\ parameterized

\* C16: a nextReusableInputParamId that finds an equivalent entry while the
\* flag is true returns an id and leaves the table, the counter and the flag
\* as they were, also when maxParamCount is used up.
C16_ReuseHitConsumesNothing ==
    \A i \in 1..Len(calls) :
        ReuseHit(i) =>
            /\ Len(calls[i].ids) = 1
            /\ After(i).inputParamIdToExpressionMap
                 = calls[i].pre.inputParamIdToExpressionMap
            /\ After(i).nextParamId = calls[i].pre.nextParamId
            /\ After(i).parameterized

\* A reuse hit on a context whose maxParamCount was already used up.
C16_Witness ==
    \E i \in 1..Len(calls) :
        /\ ReuseHit(i)
        /\ calls[i].pre.maxParamCount # <<>>
        /\ calls[i].pre.nextParamId >= calls[i].pre.maxParamCount[1]
        /\ Len(calls[i].ids) = 1
        /\ After(i).parameterized

\* Call j appended at least one table entry.
Appends(j) ==
    Len(After(j).inputParamIdToExpressionMap)
        > Len(calls[j].pre.inputParamIdToExpressionMap)

\* C17: the ids returned by a call that appends to the table are greater than
\* every id returned by an earlier call, increase within the call, and stay
\* below maxParamCount when one is set.
C17_FreshIdsIncrease ==
    \A j \in 1..Len(calls) :
        Appends(j) =>
            /\ \A i \in 1..(j - 1) :
                 \A old \in Range(calls[i].ids) :
                     \A new \in Range(calls[j].ids) : old < new
            /\ \A k \in 1..(Len(calls[j].ids) - 1) :
                 calls[j].ids[k] < calls[j].ids[k + 1]
            /\ calls[j].pre.maxParamCount # <<>> =>
                 \A new \in Range(calls[j].ids) :
                     new < calls[j].pre.maxParamCount[1]

\* On a context started above 0: an append, a reuse hit, another append.
C17_Witness ==
    /\ startingParamId > 0
    /\ Len(calls) = 3
    /\ Appends(1)
    /\ ReuseHit(2)
    /\ Appends(3)

\* C12: two contexts constructed with the same maxParamCount and the same
\* startingParamId and driven by the same calls over structurally identical
\* trees return the same results call by call, and end with the same flag
\* and with tables of the same length whose entries correspond.
C12_Deterministic ==
    /\ Len(twinReturns) = Len(calls)
    /\ \A i \in 1..Len(calls) :
         /\ twinReturns[i].avail = calls[i].avail
         /\ twinReturns[i].ids = calls[i].ids
    /\ twinContext.parameterized = parameterized
    /\ twinContext.nextParamId = nextParamId
    /\ Len(twinContext.inputParamIdToExpressionMap)
         = Len(inputParamIdToExpressionMap)
    /\ \A k \in 1..Len(inputParamIdToExpressionMap) :
         twinContext.inputParamIdToExpressionMap[k]
             = Twin(inputParamIdToExpressionMap[k])

\* Both occurrences of a predicate are in the table, in opposite address
\* order in the two trees, and a reuse request found them.
C12_Witness ==
    /\ Len(calls) = 3
    /\ inputParamIdToExpressionMap = <<1, 2>>
    /\ twinContext.inputParamIdToExpressionMap = <<2, 1>>
    /\ ReuseHit(3)
    /\ twinReturns[3].ids = calls[3].ids

\* C13: the visit of a node whose kind has an empty visit() body (And, Or,
\* Nor, Not, Exists, ElemMatch*, AlwaysTrue/False, Geo*, Text*, InternalExpr*,
\* InternalSchema*, InternalEqHashedKey, ...) leaves the table, the counter
\* and the flag as they were and sets no id on the node.
C13_EmptyVisitsAreInert ==
    \A i \in 1..Len(calls) :
        calls[i].op \in EmptyVisitKinds =>
            /\ calls[i].ids = <<>>
            /\ inputParamIds[calls[i].expr] = <<>>
            /\ After(i).inputParamIdToExpressionMap
                 = calls[i].pre.inputParamIdToExpressionMap
            /\ After(i).nextParamId = calls[i].pre.nextParamId
            /\ After(i).parameterized = calls[i].pre.parameterized

\* An InternalEqHashedKey leaf was visited while the flag was true, a slot
\* was in the table and the limit had room for more.
C13_Witness ==
    /\ calls # <<>>
    /\ calls[1].op = "InternalEqHashedKey"
    /\ calls[1].pre.parameterized
    /\ calls[1].pre.inputParamIdToExpressionMap # <<>>
    /\ calls[1].pre.maxParamCount # <<>>
    /\ calls[1].pre.nextParamId < calls[1].pre.maxParamCount[1]
    /\ visits[calls[1].expr] = 1

\* The walk has returned.
WalkDone == stack = <<>>

\* C15: preVisit hands the node to the visitor exactly once, whatever the
\* flag; postVisit and inVisit change neither the context nor the ids set on
\* the nodes; the walk ends, and by then every node was visited once.
C15_WalkerWorksInPreVisit ==
    /\ [][WalkPreVisit =>
            visits' = [visits EXCEPT ![Top.node] = @ + 1]]_vars
    /\ [][(WalkInVisit \/ WalkPostVisit) =>
            UNCHANGED <<inputParamIdToExpressionMap, maxParamCount,
                        nextParamId, parameterized, inputParamIds,
                        visits>>]_vars
    /\ [](WalkDone => \A n \in Nodes : visits[n] = 1)
    /\ <>WalkDone

\* The walk ended with the flag false, and its last leaf was still handed to
\* the visitor after the flag had fallen.
C15_Witness ==
    /\ WalkDone
    /\ ~parameterized
    /\ calls # <<>>
    /\ calls[1].expr = NumExprs
    /\ ~calls[1].pre.parameterized
    /\ \A n \in Nodes : visits[n] = 1

\* The caller holds a read ticket and has requested uninterruptible locks,
\* on a locker that is not a no-op.
ReadTicketedUninterruptible(lockState) ==
    /\ ~lockState.isNoop
    /\ lockState.ticket = "read"
    /\ lockState.uninterruptibleLocksRequested

\* C18: oplogDiskLocRegister calls oplogDiskLocRegisterImpl, once, with its
\* own arguments, and returns the Status it gets, unless the caller holds a
\* read ticket with uninterruptible locks requested on a locker that is not a
\* no-op; then the invariant fails and the Impl is not called.
C18_RegisterGuarded ==
    \A i \in 1..Len(rsCalls) :
        rsCalls[i].fn = "oplogDiskLocRegister" =>
            LET c == rsCalls[i] IN
            IF ReadTicketedUninterruptible(c.lockState)
            THEN c.aborted /\ c.impl = <<>> /\ c.ret = <<>>
            ELSE /\ ~c.aborted
                 /\ c.impl = <<ImplCall("oplogDiskLocRegisterImpl", c.opTime,
                                        c.orderedCommit)>>
                 /\ c.ret = <<c.implStatus>>

\* A registration under a write ticket with uninterruptible locks handed
\* back the error of its Impl; the next one, under a read ticket, died.
C18_Witness ==
    /\ Len(rsCalls) = 2
    /\ rsCalls[1].fn = "oplogDiskLocRegister"
    /\ rsCalls[1].lockState.ticket = "write"
    /\ rsCalls[1].lockState.uninterruptibleLocksRequested
    /\ ~rsCalls[1].lockState.isNoop
    /\ rsCalls[1].ret = <<"BadValue">>
    /\ rsCalls[2].fn = "oplogDiskLocRegister"
    /\ ReadTicketedUninterruptible(rsCalls[2].lockState)
    /\ rsCalls[2].aborted

\* The caller holds a write ticket and has requested uninterruptible locks,
\* on a locker that is not a no-op.
WriteTicketedUninterruptible(lockState) ==
    /\ ~lockState.isNoop
    /\ lockState.ticket = "write"
    /\ lockState.uninterruptibleLocksRequested

\* C19: waitForAllEarlierOplogWritesToBeVisible calls its Impl, once, unless
\* the caller holds a write ticket with uninterruptible locks requested on a
\* locker that is not a no-op; then the invariant fails and the wait never
\* starts.
C19_WaitGuarded ==
    \A i \in 1..Len(rsCalls) :
        rsCalls[i].fn = "waitForAllEarlierOplogWritesToBeVisible" =>
            LET c == rsCalls[i] IN
            IF WriteTicketedUninterruptible(c.lockState)
            THEN c.aborted /\ c.impl = <<>>
            ELSE /\ ~c.aborted
                 /\ Len(c.impl) = 1
                 /\ c.impl[1].fn
                      = "waitForAllEarlierOplogWritesToBeVisibleImpl"

\* A waiter under a read ticket with uninterruptible locks waited; the next
\* one, under a write ticket, died.
C19_Witness ==
    /\ Len(rsCalls) = 2
    /\ rsCalls[1].fn = "waitForAllEarlierOplogWritesToBeVisible"
    /\ ReadTicketedUninterruptible(rsCalls[1].lockState)
    /\ rsCalls[1].impl # <<>>
    /\ rsCalls[2].fn = "waitForAllEarlierOplogWritesToBeVisible"
    /\ WriteTicketedUninterruptible(rsCalls[2].lockState)
    /\ rsCalls[2].aborted

=============================================================================
